---------------------------- MODULE Spec2Model ----------------------------
(***************************************************************************)
(* pytest-cocotb: the mkdir-based NFS lock (nfs_lock.py, NFSLock) and the  *)
(* call-once guard layered on it (guard.py, CallOnce).                     *)
(*                                                                         *)
(* One lock path and one operation name are modelled: the directory        *)
(* <base>/.locks/<name>.lock, its holder.info file and the two markers     *)
(* <name>.done and <name>.failed.  Every caller is one operating-system    *)
(* process (its pid is its number) on one of two hosts and makes one       *)
(* ensure_done call.  Each action is one system call of that call,         *)
(* together with the purely local steps that follow it.                    *)
(*                                                                         *)
(* Time is kept as differences, which is all the code compares: the age    *)
(* of the Holder Record (time.time() - timestamp) and the time left to     *)
(* the deadline of an acquire (deadline - time.monotonic()).  Tick lets    *)
(* one unit pass; an age past stale_timeout and a deadline already         *)
(* reached stay where they are, since the code cannot tell them from       *)
(* larger values.  The poll sleep (0.1 s against timeouts of thousands of  *)
(* seconds) is shorter than a unit: a caller may poll again without a      *)
(* Tick in between.                                                        *)
(***************************************************************************)
EXTENDS Integers, FiniteSets, Sequences, TLC

\* ------------------------------------------------------------- bounds ----
NProcs == 3          \* callers
MaxCrashes == 1      \* callers that may die during their call
MaxRuns == 8         \* run() calls made on one TestSession
MaxLen == 5          \* characters of a pytest node ID

\* ---------------------------------------------------- program constants --
\* NFSLock.stale_timeout in clock units (7200 s by default)
StaleTimeout == 2
\* CallOnce.timeout in the same units (3600 s by default)
DefaultTimeout == 1

Procs == 1 .. NProcs
NoProc == 0
NoDeadline == -1

\* acquisition timeouts a caller may be configured with; a negative one
\* waits forever
Timeouts == {-1, 0, DefaultTimeout}

\* socket.gethostname() of the process
HostOf(p) == IF p % 2 = 0 THEN "hostB" ELSE "hostA"

\* holder.info: missing ("none"), empty ("empty"), holding one JSON record
\* ("rec") or bytes that do not parse ("bad").  "by" stands for the
\* record's hostname and pid, "age" for time.time() minus its timestamp,
\* "fds" for the processes that have this very file open for writing.
NoHolder == [st |-> "none", by |-> NoProc, age |-> 0, fds |-> {}]

\* a marker file is Absent or has a content; "<unreadable>" is what
\* ensure_done reports for a failed marker it cannot read
Absent == "<absent>"
Unreadable == "<unreadable>"

\* what the operation does when invoked: it returns, or raises an error
\* whose str() is msg
OpOutcomes == {[kind |-> "ok", msg |-> ""], [kind |-> "OpError", msg |-> "e1"]}

NoError == [kind |-> "none", msg |-> ""]
Ok == [kind |-> "ok", msg |-> ""]
LockTimeout == [kind |-> "NFSLockTimeout", msg |-> ""]
FileError == [kind |-> "OSError", msg |-> ""]

VARIABLES
    pc,         \* pc[p]: where caller p is in its ensure_done call; "dead":
                \* the process no longer exists
    lockDir,    \* NoProc: no lock directory; p: the directory p's mkdir made
    holder,     \* the holder.info file inside the lock directory
    done,       \* the done marker exists
    failed,     \* the failed marker: Absent or its content
    timeLeft,   \* acquire's deadline - time.monotonic(); NoDeadline: None
    err,        \* the exception propagating out of the with-block
    result,     \* how the call ended: Ok, or the error it raised
    outcome,    \* history: what the operation did when the call invoked
                \* it; NoError: the call has not invoked it
    late,       \* history: the marker that existed when the call began
    blocker,    \* history: the live caller that has had the lock directory
                \* ever since the call began, has not begun its release, and
                \* whose Holder Record the clock has never found missing or
                \* older than stale_timeout
    lockOps,    \* history: what the call did to the lock: the deletions
                \* its acquire made while waiting or, once its create
                \* succeeded, "mkdir"; "record" once it opened holder.info
                \* for writing, "release" once its release has run
    wrote,      \* history: the marker the call wrote, and the content
    cleaned,    \* history: clean has removed a marker
    sinceClean  \* history: what has happened since clean last removed a
                \* marker: nothing ("fresh"), a call has begun ("begun", next
                \* being the first to begin), the operation has been invoked
                \* ("invoked"); "never": clean has removed no marker so far

\* The three functions of the package that stand apart from the lock are
\* run on variables of their own, which the callers above never touch.
VARIABLES
    probe,      \* one call of _nfs_file_exists: the path it is given, what
                \* os.open does there, where the call is, what it returned
    session,    \* one TestSession: _has_run, the calls of runner.test, and
                \* how each run() call so far ended
    node,       \* one call of _sanitise_name: the node ID and the result
    marking     \* one caller inside the with-block of ensure_done, from
                \* self.fn() to the return: where it is, the marker being
                \* created and its content, the exception in flight, the
                \* system calls that have completed, how the call ended

vars == <<pc, lockDir, holder, done, failed, timeLeft, err, result, blocker,
          outcome, late, lockOps, wrote, cleaned, sinceClean,
          probe, session, node, marking>>

\* the variables of the lock and of the call-once guard
core == <<pc, lockDir, holder, done, failed, timeLeft, err, result, blocker,
          outcome, late, lockOps, wrote, cleaned, sinceClean>>
others == <<probe, session, node, marking>>

fsvars == <<lockDir, holder, done, failed>>
locals == <<timeLeft, err, result, blocker>>
hist == <<outcome, late, lockOps, wrote, cleaned, sinceClean>>

NoMarker == [marker |-> "none", content |-> ""]

\* no call has begun, the lock is free, no marker exists
InitLock ==
    /\ pc = [p \in Procs |-> "idle"]
    /\ lockDir = NoProc
    /\ holder = NoHolder
    /\ done = FALSE
    /\ failed = Absent
    /\ timeLeft = [p \in Procs |-> NoDeadline]
    /\ err = [p \in Procs |-> NoError]
    /\ result = [p \in Procs |-> NoError]
    /\ outcome = [p \in Procs |-> NoError]
    /\ late = [p \in Procs |-> "none"]
    /\ blocker = [p \in Procs |-> NoProc]
    /\ lockOps = [p \in Procs |-> {}]
    /\ wrote = [p \in Procs |-> NoMarker]
    /\ cleaned = FALSE
    /\ sinceClean = [st |-> "never", next |-> NoProc]

\* nothing is being probed, run or sanitised
NoProbe == [path |-> "none", parent |-> "ok", file |-> "ok", at |-> "idle",
            ret |-> "none"]
NoSession == [hasRun |-> FALSE, tests |-> 0, runs |-> <<>>]
NoNode == [id |-> <<>>, out |-> <<>>, at |-> "idle"]
NoMarking == [at |-> "idle", path |-> "none", content |-> "", exc |-> "none",
              err |-> "none", log |-> <<>>, result |-> "none"]

Init ==
    /\ InitLock
    /\ probe = NoProbe
    /\ session = NoSession
    /\ node = NoNode
    /\ marking = NoMarking

\* os.kill(p, 0) finds the process
Alive(p) == p \in Procs /\ pc[p] # "dead"

Running(p, at) == pc[p] = at

Goto(p, to) == pc' = [pc EXCEPT ![p] = to]

\* p's call is over or p no longer has the lock: p waits for nobody and
\* nobody waits for p
Unblocked(p) ==
    [q \in Procs |-> IF q = p \/ blocker[q] = p THEN NoProc ELSE blocker[q]]

\* the call ends: it returns (r = Ok) or raises r; its locals are gone
Return(p, r) ==
    /\ pc' = [pc EXCEPT ![p] = "ret"]
    /\ result' = [result EXCEPT ![p] = r]
    /\ timeLeft' = [timeLeft EXCEPT ![p] = NoDeadline]
    /\ err' = [err EXCEPT ![p] = NoError]
    /\ blocker' = Unblocked(p)

\* ------------------------------------------------------ NFSLock.acquire --

\* q made the lock directory and is on its way to, or in, the with-block
HasLock(q) ==
    /\ q \in Procs
    /\ pc[q] \in {"wh_open", "wh_write", "chk_done", "chk_fail", "read_fail",
                  "invoke", "mk_open", "mk_write", "mk_sync", "rel_unlink"}

\* q is a live, non-stale holder: it has the lock directory, and the Holder
\* Record h in it is q's own and not older than stale_timeout
NonStale(q, h) ==
    /\ HasLock(q)
    /\ lockDir = q
    /\ h.st = "rec" /\ h.by = q /\ h.age <= StaleTimeout

\* ensure_done up to the loop of acquire: the base and .locks directories
\* are made (they stay), the deadline is computed from the timeout
EnsureDone(p, timeout) ==
    /\ Running(p, "idle")
    /\ timeLeft' = [timeLeft EXCEPT
                      ![p] = IF timeout < 0 THEN NoDeadline ELSE timeout]
    /\ late' = [late EXCEPT ![p] = IF done THEN "done"
                                   ELSE IF failed # Absent THEN "failed"
                                   ELSE "none"]
    /\ blocker' = [blocker EXCEPT ![p] = IF NonStale(lockDir, holder)
                                         THEN lockDir
                                         ELSE NoProc]
    /\ sinceClean' = IF sinceClean.st = "fresh"
                     THEN [st |-> "begun", next |-> p]
                     ELSE sinceClean
    /\ Goto(p, "mkdir")
    /\ UNCHANGED <<others, fsvars, err, result, outcome, lockOps, wrote, cleaned>>

\* os.mkdir(self.lock_path): atomic create, or FileExistsError
Mkdir(p) ==
    /\ Running(p, "mkdir")
    /\ IF lockDir = NoProc
       THEN /\ lockDir' = p
            /\ lockOps' = [lockOps EXCEPT ![p] = {"mkdir"}]
            /\ Goto(p, "wh_open")
       ELSE /\ Goto(p, "read")
            /\ UNCHANGED <<lockDir, lockOps>>
    /\ UNCHANGED <<others, holder, done, failed, locals, outcome, late, wrote, cleaned, sinceClean>>

\* a deadline test that does not wait for the deadline
TimedOutEarly(p) == timeLeft[p] # NoDeadline

\* time.monotonic() >= deadline
TimedOut(p) == timeLeft[p] # NoDeadline /\ timeLeft[p] <= 0

\* acquire, after _try_break_stale returned False: raise NFSLockTimeout
\* once the deadline is reached, else go on to the sleep
CheckDeadline(p) ==
    IF TimedOut(p)
    THEN Return(p, LockTimeout)
    ELSE Goto(p, "sleep") /\ UNCHANGED locals

\* acquire: time.sleep(self.poll_interval), then the next turn of the loop
Sleep(p) ==
    /\ Running(p, "sleep")
    /\ Goto(p, "mkdir")
    /\ UNCHANGED <<others, fsvars, locals, hist>>

\* _read_holder_info: the record, or None for a missing or unparsable file
ReadHolderInfo == IF holder.st = "rec" THEN holder ELSE NoHolder

\* os.kill(pid, 0) on the contender's host: it returns ("ok") or raises
\* PermissionError for a process that exists (which of the two depends on
\* the users of the two processes), ProcessLookupError for one that does not
Kill(q) == IF Alive(q) THEN {"ok", "PermissionError"}
           ELSE {"ProcessLookupError"}

\* a staleness rule that looks at the record's age on every host
IsStaleByAge(p, i, k) == i.age > StaleTimeout

\* _is_stale(info): same host, the pid is probed with os.kill(pid, 0), k
\* being what the probe did; another host, the record's age is compared
\* with stale_timeout
IsStale(p, i, k) ==
    IF HostOf(i.by) = HostOf(p)
    THEN k = "ProcessLookupError"
    ELSE i.age > StaleTimeout

\* _try_break_stale up to its log.info: read the record and judge it
TryBreakStale(p) ==
    /\ Running(p, "read")
    /\ \E k \in Kill(ReadHolderInfo.by) :
          IF ReadHolderInfo # NoHolder /\ IsStale(p, ReadHolderInfo, k)
          THEN Goto(p, "brk_unlink") /\ UNCHANGED locals
          ELSE CheckDeadline(p)
    /\ UNCHANGED <<others, fsvars, hist>>

\* _try_break_stale: self._holder_file.unlink(missing_ok=True), OSError
\* suppressed
BreakUnlink(p) ==
    /\ Running(p, "brk_unlink")
    /\ holder' = NoHolder
    /\ lockOps' = [lockOps EXCEPT
                     ![p] = IF holder.st # "none" THEN @ \cup {"unlink"} ELSE @]
    /\ Goto(p, "brk_rmdir")
    /\ UNCHANGED <<others, lockDir, done, failed, locals, outcome, late, wrote, cleaned, sinceClean>>

\* os.rmdir fails on a missing and on a non-empty directory
RmdirOk == lockDir # NoProc /\ holder.st = "none"

\* a stale-break that counts as the acquisition: after its rmdir the
\* breaker goes on to write its Holder Record
BreakRmdirAcquires(p) ==
    /\ Running(p, "brk_rmdir")
    /\ IF RmdirOk
       THEN /\ lockDir' = p
            /\ lockOps' = [lockOps EXCEPT ![p] = @ \cup {"rmdir"}]
            /\ Goto(p, "wh_open")
            /\ UNCHANGED locals
       ELSE /\ CheckDeadline(p)
            /\ UNCHANGED <<lockDir, lockOps>>
    /\ UNCHANGED <<others, holder, done, failed, outcome, late, wrote, cleaned, sinceClean>>

\* a stale-break that reports a failed rmdir as a broken lock
BreakRmdirReportsBroken(p) ==
    /\ Running(p, "brk_rmdir")
    /\ lockDir' = IF RmdirOk THEN NoProc ELSE lockDir
    /\ lockOps' = [lockOps EXCEPT
                     ![p] = IF RmdirOk THEN @ \cup {"rmdir"} ELSE @]
    /\ Goto(p, "mkdir")
    /\ UNCHANGED <<others, holder, done, failed, locals, outcome, late, wrote, cleaned, sinceClean>>

\* _try_break_stale: os.rmdir(self.lock_path); True when it worked, and
\* acquire retries the create at once
BreakRmdir(p) ==
    /\ Running(p, "brk_rmdir")
    /\ IF RmdirOk
       THEN /\ lockDir' = NoProc
            /\ lockOps' = [lockOps EXCEPT ![p] = @ \cup {"rmdir"}]
            /\ Goto(p, "mkdir")
            /\ UNCHANGED locals
       ELSE /\ CheckDeadline(p)
            /\ UNCHANGED <<lockDir, lockOps>>
    /\ UNCHANGED <<others, holder, done, failed, outcome, late, wrote, cleaned, sinceClean>>

\* an acquire that reports the failed Holder Record write as a timeout
WriteHolderOpenTimesOut(p) ==
    /\ Running(p, "wh_open")
    /\ Return(p, LockTimeout)
    /\ UNCHANGED <<others, fsvars, hist>>

\* _write_holder_info: os.open(holder.info, O_WRONLY|O_CREAT|O_TRUNC)
\* creates the file or empties the one that is there; it raises
\* FileNotFoundError out of acquire when the directory is gone
WriteHolderOpen(p) ==
    /\ Running(p, "wh_open")
    /\ IF lockDir = NoProc
       THEN /\ Return(p, FileError)
            /\ UNCHANGED <<holder, lockOps>>
       ELSE /\ holder' = [st |-> "empty", by |-> NoProc, age |-> 0,
                          fds |-> holder.fds \cup {p}]
            /\ lockOps' = [lockOps EXCEPT ![p] = @ \cup {"record"}]
            /\ Goto(p, "wh_write")
            /\ UNCHANGED locals
    /\ UNCHANGED <<others, lockDir, done, failed, outcome, late, wrote, cleaned, sinceClean>>

\* the file after p wrote its record at offset 0 of its descriptor: the
\* bytes reach the path only while the file p opened is still the one
\* there; written over another record they leave p's record, or, when p's
\* is the shorter one, p's record followed by the other's tail
Written(p) ==
    IF p \notin holder.fds THEN {holder}
    ELSE {[st |-> "rec", by |-> p, age |-> 0, fds |-> holder.fds \ {p}]}
         \cup (IF holder.st = "empty" THEN {}
               ELSE {[st |-> "bad", by |-> NoProc, age |-> 0,
                      fds |-> holder.fds \ {p}]})

\* _write_holder_info: os.write, os.fsync, os.close on the descriptor;
\* acquire returns and the with-block begins
WriteHolderWrite(p) ==
    /\ Running(p, "wh_write")
    /\ \E h \in Written(p) : holder' = h
    /\ timeLeft' = [timeLeft EXCEPT ![p] = NoDeadline]
    /\ Goto(p, "chk_done")
    /\ UNCHANGED <<others, lockDir, done, failed, err, result, blocker, hist>>

\* -------------------------------------------------- CallOnce.ensure_done --

\* ensure_done without its done-marker check
CheckDoneSkipped(p) ==
    /\ Running(p, "chk_done")
    /\ Goto(p, "chk_fail")
    /\ UNCHANGED <<others, fsvars, locals, hist>>

\* if _nfs_file_exists(self._done_file): return
CheckDone(p) ==
    /\ Running(p, "chk_done")
    /\ Goto(p, IF done THEN "rel_unlink" ELSE "chk_fail")
    /\ UNCHANGED <<others, fsvars, locals, hist>>

\* ensure_done without its failed-marker check
CheckFailedSkipped(p) ==
    /\ Running(p, "chk_fail")
    /\ Goto(p, "invoke")
    /\ UNCHANGED <<others, fsvars, locals, hist>>

\* if _nfs_file_exists(self._fail_file):
CheckFailed(p) ==
    /\ Running(p, "chk_fail")
    /\ Goto(p, IF failed # Absent THEN "read_fail" ELSE "invoke")
    /\ UNCHANGED <<others, fsvars, locals, hist>>

\* error_msg = self._fail_file.read_text(), "<unreadable>" on OSError;
\* raise RuntimeError("Previous execution of ... failed: " + error_msg)
ReadFailed(p) ==
    /\ Running(p, "read_fail")
    /\ err' = [err EXCEPT ![p] =
                 [kind |-> "RuntimeError",
                  msg |-> IF failed = Absent THEN Unreadable ELSE failed]]
    /\ Goto(p, "rel_unlink")
    /\ UNCHANGED <<others, fsvars, timeLeft, result, blocker, hist>>

\* an ensure_done in which a failure of the operation comes out as the
\* lock's timeout
InvokeTimesOut(p, o) ==
    /\ Running(p, "invoke")
    /\ outcome' = [outcome EXCEPT ![p] = o]
    /\ err' = [err EXCEPT ![p] = IF o.kind = "ok" THEN NoError ELSE LockTimeout]
    /\ sinceClean' = IF sinceClean.st = "begun"
                     THEN [sinceClean EXCEPT !.st = "invoked"]
                     ELSE sinceClean
    /\ Goto(p, "mk_open")
    /\ UNCHANGED <<others, fsvars, timeLeft, result, late, blocker, lockOps, wrote,
                   cleaned>>

\* self.fn()
Invoke(p, o) ==
    /\ Running(p, "invoke")
    /\ outcome' = [outcome EXCEPT ![p] = o]
    /\ err' = [err EXCEPT ![p] = IF o.kind = "ok" THEN NoError ELSE o]
    /\ sinceClean' = IF sinceClean.st = "begun"
                     THEN [sinceClean EXCEPT !.st = "invoked"]
                     ELSE sinceClean
    /\ Goto(p, "mk_open")
    /\ UNCHANGED <<others, fsvars, timeLeft, result, late, blocker, lockOps, wrote,
                   cleaned>>

\* ensure_done creating the done marker whatever fn did
MarkerOpenDoneOnly(p) ==
    /\ Running(p, "mk_open")
    /\ done' = TRUE
    /\ wrote' = [wrote EXCEPT ![p] = [marker |-> "done", content |-> ""]]
    /\ Goto(p, "mk_sync")
    /\ UNCHANGED <<others, lockDir, holder, failed, locals, outcome, late, lockOps,
                   cleaned, sinceClean>>

\* _create_marker(self._done_file) after fn returned,
\* _create_marker(self._fail_file, str(e)) after it raised e:
\* os.open(path, O_WRONLY|O_CREAT|O_TRUNC)
MarkerOpen(p) ==
    /\ Running(p, "mk_open")
    /\ IF err[p] = NoError
       THEN /\ done' = TRUE
            /\ wrote' = [wrote EXCEPT ![p] = [marker |-> "done", content |-> ""]]
            /\ Goto(p, "mk_sync")
            /\ UNCHANGED failed
       ELSE /\ failed' = ""
            /\ wrote' = [wrote EXCEPT ![p] = [marker |-> "failed", content |-> ""]]
            /\ Goto(p, IF err[p].msg # "" THEN "mk_write" ELSE "mk_sync")
            /\ UNCHANGED done
    /\ UNCHANGED <<others, lockDir, holder, locals, outcome, late, lockOps,
                   cleaned, sinceClean>>

\* _create_marker: os.write(fd, content.encode())
MarkerWrite(p) ==
    /\ Running(p, "mk_write")
    /\ failed' = IF failed = Absent THEN Absent ELSE err[p].msg
    /\ wrote' = [wrote EXCEPT ![p].content = err[p].msg]
    /\ Goto(p, "mk_sync")
    /\ UNCHANGED <<others, lockDir, holder, done, locals, outcome, late, lockOps,
                   cleaned, sinceClean>>

\* an ensure_done that leaves its with-block without the release
MarkerSyncNoRelease(p) ==
    /\ Running(p, "mk_sync")
    /\ Return(p, IF err[p] = NoError THEN Ok ELSE err[p])
    /\ UNCHANGED <<others, fsvars, hist>>

\* _create_marker: os.fsync(fd), os.close(fd), _fsync_directory(parent);
\* then the with-block is left, by falling off its end or by the bare raise
MarkerSync(p) ==
    /\ Running(p, "mk_sync")
    /\ Goto(p, "rel_unlink")
    /\ UNCHANGED <<others, fsvars, locals, hist>>

\* ------------------------------------------------------ NFSLock.release --

\* __exit__ -> release: self._holder_file.unlink(missing_ok=True), OSError
\* suppressed
ReleaseUnlink(p) ==
    /\ Running(p, "rel_unlink")
    /\ holder' = NoHolder
    /\ blocker' = Unblocked(p)
    /\ Goto(p, "rel_rmdir")
    /\ UNCHANGED <<others, lockDir, done, failed, timeLeft, err, result, hist>>

\* a release that lets the OSError of a failed rmdir out
ReleaseRmdirRaises(p) ==
    /\ Running(p, "rel_rmdir")
    /\ lockDir' = IF RmdirOk THEN NoProc ELSE lockDir
    /\ lockOps' = [lockOps EXCEPT ![p] = @ \cup {"release"}]
    /\ Return(p, IF ~RmdirOk THEN FileError
                 ELSE IF err[p] = NoError THEN Ok ELSE err[p])
    /\ UNCHANGED <<others, holder, done, failed, outcome, late, wrote, cleaned,
                   sinceClean>>

\* release: os.rmdir(self.lock_path), OSError suppressed; __exit__ returns
\* None, so the exception of the with-block, if any, goes on to the caller
ReleaseRmdir(p) ==
    /\ Running(p, "rel_rmdir")
    /\ lockDir' = IF RmdirOk THEN NoProc ELSE lockDir
    /\ lockOps' = [lockOps EXCEPT ![p] = @ \cup {"release"}]
    /\ Return(p, IF err[p] = NoError THEN Ok ELSE err[p])
    /\ UNCHANGED <<others, holder, done, failed, outcome, late, wrote, cleaned, sinceClean>>

\* --------------------------------------------------------- CallOnce.clean --

\* no ensure_done call for the name is running (clean's caller sees to it)
Quiescent == \A p \in Procs : pc[p] \in {"idle", "ret", "dead"}

\* a clean that leaves the done marker where it is
CleanKeepsDone ==
    /\ Quiescent
    /\ failed' = Absent
    /\ cleaned' = (cleaned \/ done \/ failed # Absent)
    /\ sinceClean' = IF done \/ failed # Absent
                     THEN [st |-> "fresh", next |-> NoProc]
                     ELSE sinceClean
    /\ UNCHANGED <<others, pc, lockDir, holder, done, locals, outcome, late, lockOps,
                   wrote>>

\* a clean that clears the lock away as well
CleanRemovesLock ==
    /\ Quiescent
    /\ done' = FALSE
    /\ failed' = Absent
    /\ lockDir' = NoProc
    /\ holder' = NoHolder
    /\ cleaned' = (cleaned \/ done \/ failed # Absent)
    /\ sinceClean' = IF done \/ failed # Absent
                     THEN [st |-> "fresh", next |-> NoProc]
                     ELSE sinceClean
    /\ UNCHANGED <<others, pc, locals, outcome, late, lockOps, wrote>>

\* clean: unlink(missing_ok=True) of the done and of the failed marker;
\* with neither marker there it changes nothing
Clean ==
    /\ Quiescent
    /\ done' = FALSE
    /\ failed' = Absent
    /\ cleaned' = (cleaned \/ done \/ failed # Absent)
    /\ sinceClean' = IF done \/ failed # Absent
                     THEN [st |-> "fresh", next |-> NoProc]
                     ELSE sinceClean
    /\ UNCHANGED <<others, pc, lockDir, holder, locals, outcome, late, lockOps,
                   wrote>>

\* ---------------------------------------------------------- environment --

Dead == {p \in Procs : ~Alive(p)}

\* the process dies in the middle of its call (kill -9, node failure); its
\* locals die with it, what it left on the filesystem stays
Crash(p) ==
    /\ pc[p] \notin {"idle", "ret", "dead"}
    /\ Cardinality(Dead) < MaxCrashes
    /\ pc' = [pc EXCEPT ![p] = "dead"]
    /\ timeLeft' = [timeLeft EXCEPT ![p] = NoDeadline]
    /\ err' = [err EXCEPT ![p] = NoError]
    /\ late' = [late EXCEPT ![p] = "none"]
    /\ blocker' = Unblocked(p)
    /\ lockOps' = [lockOps EXCEPT ![p] = {}]
    /\ wrote' = [wrote EXCEPT ![p] = NoMarker]
    /\ UNCHANGED <<others, fsvars, result, outcome, cleaned, sinceClean>>

\* one unit of time passes
Aged(h) == IF h.st # "rec" \/ h.age > StaleTimeout
           THEN h
           ELSE [h EXCEPT !.age = @ + 1]

Tick ==
    /\ holder' = Aged(holder)
    /\ timeLeft' = [p \in Procs |->
                      IF timeLeft[p] > 0 THEN timeLeft[p] - 1 ELSE timeLeft[p]]
    /\ blocker' = [p \in Procs |->
                     IF NonStale(blocker[p], Aged(holder)) THEN blocker[p]
                     ELSE NoProc]
    /\ UNCHANGED <<others, pc, lockDir, done, failed, err, result, hist>>

Next ==
    \/ \E p \in Procs : \E t \in Timeouts : EnsureDone(p, t)
    \/ \E p \in Procs : Mkdir(p)
    \/ \E p \in Procs : TryBreakStale(p)
    \/ \E p \in Procs : Sleep(p)
    \/ \E p \in Procs : BreakUnlink(p)
    \/ \E p \in Procs : BreakRmdir(p)
    \/ \E p \in Procs : WriteHolderOpen(p)
    \/ \E p \in Procs : WriteHolderWrite(p)
    \/ \E p \in Procs : CheckDone(p)
    \/ \E p \in Procs : CheckFailed(p)
    \/ \E p \in Procs : ReadFailed(p)
    \/ \E p \in Procs : \E o \in OpOutcomes : Invoke(p, o)
    \/ \E p \in Procs : MarkerOpen(p)
    \/ \E p \in Procs : MarkerWrite(p)
    \/ \E p \in Procs : MarkerSync(p)
    \/ \E p \in Procs : ReleaseUnlink(p)
    \/ \E p \in Procs : ReleaseRmdir(p)
    \/ Clean
    \/ \E p \in Procs : Crash(p)
    \/ Tick

Spec == Init /\ [][Next]_vars

\* The same callers under the lock's documented condition of use ("the
\* stale-timeout must be substantially larger than any expected legitimate
\* hold duration"): the Holder Record of a live process never grows older
\* than stale_timeout.  Only the record of a dead process becomes stale.
Timely ==
    IF holder.st # "rec" THEN TRUE
    ELSE IF Alive(holder.by) THEN holder.age < StaleTimeout
    ELSE TRUE

TimelyTick == Timely /\ Tick

NextTimely ==
    \/ \E p \in Procs : \E t \in Timeouts : EnsureDone(p, t)
    \/ \E p \in Procs : Mkdir(p)
    \/ \E p \in Procs : TryBreakStale(p)
    \/ \E p \in Procs : Sleep(p)
    \/ \E p \in Procs : BreakUnlink(p)
    \/ \E p \in Procs : BreakRmdir(p)
    \/ \E p \in Procs : WriteHolderOpen(p)
    \/ \E p \in Procs : WriteHolderWrite(p)
    \/ \E p \in Procs : CheckDone(p)
    \/ \E p \in Procs : CheckFailed(p)
    \/ \E p \in Procs : ReadFailed(p)
    \/ \E p \in Procs : \E o \in OpOutcomes : Invoke(p, o)
    \/ \E p \in Procs : MarkerOpen(p)
    \/ \E p \in Procs : MarkerWrite(p)
    \/ \E p \in Procs : MarkerSync(p)
    \/ \E p \in Procs : ReleaseUnlink(p)
    \/ \E p \in Procs : ReleaseRmdir(p)
    \/ Clean
    \/ \E p \in Procs : Crash(p)
    \/ TimelyTick

SpecTimely == Init /\ [][NextTimely]_vars

\* The callers of SpecTimely waiting for the lock without a deadline
\* (timeout < 0), as schedulers run them: a process that has begun its call
\* and has not died keeps taking steps, and time keeps passing.  clean is
\* not called.
Forever == -1

\* the steps of p's call once it has begun, but for the two deletions of
\* a stale-break
StepOf(p) ==
    \/ Mkdir(p)
    \/ TryBreakStale(p)
    \/ Sleep(p)
    \/ WriteHolderOpen(p)
    \/ WriteHolderWrite(p)
    \/ CheckDone(p)
    \/ CheckFailed(p)
    \/ ReadFailed(p)
    \/ \E o \in OpOutcomes : Invoke(p, o)
    \/ MarkerOpen(p)
    \/ MarkerWrite(p)
    \/ MarkerSync(p)
    \/ ReleaseUnlink(p)
    \/ ReleaseRmdir(p)

\* the two deletions of p's stale-break
BreakOf(p) == BreakUnlink(p) \/ BreakRmdir(p)

NextRecovery ==
    \/ \E p \in Procs : EnsureDone(p, Forever)
    \/ \E p \in Procs : StepOf(p)
    \/ \E p \in Procs : BreakOf(p)
    \/ \E p \in Procs : Crash(p)
    \/ TimelyTick

Fairness ==
    /\ \A p \in Procs : WF_vars(StepOf(p) \/ BreakOf(p))
    /\ WF_vars(TimelyTick)

SpecRecovery == Init /\ [][NextRecovery]_vars /\ Fairness


\* The callers on a filesystem whose system calls may fail (EIO, ENOSPC,
\* EDQUOT, EACCES ...) while a marker is written and while the lock is
\* released.  No process dies and no holder overstays: no Holder Record
\* is ever judged stale, and the deletions of a stale-break do not occur.

\* the OSError a failing system call raises
MarkerError == [kind |-> "OSError", msg |-> "e2"]

\* _create_marker raises OSError: from os.open (nothing is created), from
\* os.write or from one of the two fsyncs (the file is there).  Raised for
\* the done marker, inside the try, it is caught by `except Exception` and
\* the failed marker is created with str(e); raised for the failed marker,
\* inside the except clause, it leaves the with-block.
MarkerFails(p) ==
    /\ pc[p] \in {"mk_open", "mk_write", "mk_sync"}
    /\ err' = [err EXCEPT ![p] = MarkerError]
    /\ Goto(p, IF err[p] = NoError THEN "mk_open" ELSE "rel_unlink")
    /\ UNCHANGED <<others, fsvars, timeLeft, result, blocker, hist>>

\* release: the unlink raises OSError, which is suppressed; the Holder
\* Record stays
ReleaseUnlinkFails(p) ==
    /\ Running(p, "rel_unlink")
    /\ blocker' = Unblocked(p)
    /\ Goto(p, "rel_rmdir")
    /\ UNCHANGED <<others, fsvars, timeLeft, err, result, hist>>

\* release: the rmdir raises OSError, which is suppressed; the directory
\* stays
ReleaseRmdirFails(p) ==
    /\ Running(p, "rel_rmdir")
    /\ lockOps' = [lockOps EXCEPT ![p] = @ \cup {"release"}]
    /\ Return(p, IF err[p] = NoError THEN Ok ELSE err[p])
    /\ UNCHANGED <<others, fsvars, outcome, late, wrote, cleaned, sinceClean>>

NextFaulty ==
    \/ \E p \in Procs : \E t \in Timeouts : EnsureDone(p, t)
    \/ \E p \in Procs : StepOf(p)
    \/ \E p \in Procs : MarkerFails(p)
    \/ \E p \in Procs : ReleaseUnlinkFails(p)
    \/ \E p \in Procs : ReleaseRmdirFails(p)
    \/ Clean
    \/ TimelyTick

SpecFaulty == Init /\ [][NextFaulty]_vars


\* The callers with an operation that may also raise the lock's own error
\* kind: fn is any callable, for one a step that itself waits for another
\* NFSLock or CallOnce, whose NFSLockTimeout leaves fn.  No process dies
\* and no holder overstays: no Holder Record is ever judged stale, and the
\* deletions of a stale-break do not occur.
InnerTimeout == [kind |-> "NFSLockTimeout", msg |-> "e3"]

NextKinds ==
    \/ \E p \in Procs : \E t \in Timeouts : EnsureDone(p, t)
    \/ \E p \in Procs : StepOf(p)
    \/ \E p \in Procs : Invoke(p, InnerTimeout)
    \/ TimelyTick

SpecKinds == Init /\ [][NextKinds]_vars


\* The callers with a filesystem on which the system calls of
\* _write_holder_info may fail (disk full, quota, I/O error).  No process
\* dies; a holder may overstay.

\* _write_holder_info: os.open raises OSError; nothing is created, and
\* the error leaves acquire and __enter__, so __exit__ never runs
WriteHolderOpenFails(p) ==
    /\ Running(p, "wh_open")
    /\ Return(p, FileError)
    /\ UNCHANGED <<others, fsvars, hist>>

\* _write_holder_info: os.write raises OSError (the file stays as it was
\* opened) or os.fsync does (the record is in the file); os.close runs
\* and the error leaves acquire
WriteHolderWriteFails(p) ==
    /\ Running(p, "wh_write")
    /\ \E h \in {[holder EXCEPT !.fds = @ \ {p}]} \cup Written(p) : holder' = h
    /\ Return(p, FileError)
    /\ UNCHANGED <<others, lockDir, done, failed, hist>>

NextWriteFaulty ==
    \/ \E p \in Procs : \E t \in Timeouts : EnsureDone(p, t)
    \/ \E p \in Procs : StepOf(p)
    \/ \E p \in Procs : BreakOf(p)
    \/ \E p \in Procs : WriteHolderOpenFails(p)
    \/ \E p \in Procs : WriteHolderWriteFails(p)
    \/ Tick

SpecWriteFaulty == Init /\ [][NextWriteFaulty]_vars


\* --------------------------------------------------- _nfs_file_exists ----

\* what os.open(path, os.O_RDONLY) does: it returns a descriptor ("ok") or
\* raises OSError with one of these errnos
Errnos == {"ENOENT", "EACCES", "ESTALE", "EIO", "EMFILE"}
OpenOutcomes == {"ok"} \cup Errnos

\* the two paths ensure_done probes: self._done_file, self._fail_file
MarkerPaths == {"done", "failed"}

\* the calls of _nfs_file_exists: a path, and what opening its parent
\* directory and opening the file itself does; a missing parent has no
\* file in it
ProbeInputs ==
    {r \in [path : MarkerPaths, parent : OpenOutcomes, file : OpenOutcomes,
            at : {"parent"}, ret : {"none"}] :
        r.parent = "ENOENT" => r.file = "ENOENT"}

InitExists ==
    /\ InitLock
    /\ probe \in ProbeInputs
    /\ session = NoSession
    /\ node = NoNode
    /\ marking = NoMarking

\* dfd = os.open(str(parent), os.O_RDONLY); os.close(dfd);
\* except OSError: return False
OpenParent ==
    /\ probe.at = "parent"
    /\ probe' = IF probe.parent = "ok"
                THEN [probe EXCEPT !.at = "file"]
                ELSE [probe EXCEPT !.at = "ret", !.ret = "False"]
    /\ UNCHANGED <<core, session, node, marking>>

\* an existence check that trusts the parent directory alone
OpenFileSkipped ==
    /\ probe.at = "file"
    /\ probe' = [probe EXCEPT !.at = "ret", !.ret = "True"]
    /\ UNCHANGED <<core, session, node, marking>>

\* fd = os.open(str(path), os.O_RDONLY); os.close(fd);
\* except OSError: return False; return True
OpenFile ==
    /\ probe.at = "file"
    /\ probe' = [probe EXCEPT !.at = "ret",
                              !.ret = IF probe.file = "ok" THEN "True"
                                      ELSE "False"]
    /\ UNCHANGED <<core, session, node, marking>>

NextExists ==
    \/ OpenParent
    \/ OpenFile

SpecExists == InitExists /\ [][NextExists]_vars


\* ------------------------------------------------------ TestSession.run --

\* the keyword arguments of a run() call: none that run() looks at
\* ("plain"), one of _MANAGED_KEYS ("managed"), or a log_file that
\* Path() does not accept ("badlog")
KwargKinds == {"plain", "managed", "badlog"}

\* what runner.test does when called: it returns, or raises
RunnerOutcomes == {"ok", "RunnerError"}

\* a run() that marks the session as used only once the runner has
\* returned
RunMarksAfter(k, o) ==
    /\ Len(session.runs) < MaxRuns
    /\ session' =
          IF session.hasRun
          THEN [session EXCEPT !.runs = Append(@, "RuntimeError")]
          ELSE IF k = "managed"
          THEN [session EXCEPT !.runs = Append(@, "ValueError")]
          ELSE IF k = "badlog"
          THEN [session EXCEPT !.runs = Append(@, "TypeError")]
          ELSE [hasRun |-> o = "ok", tests |-> session.tests + 1,
                runs |-> Append(session.runs, o)]
    /\ UNCHANGED <<core, probe, node, marking>>

\* TestSession.run(**kwargs): the _has_run test, the _MANAGED_KEYS test,
\* self._has_run = True, the defaults, Path(kwargs["log_file"]), and
\* return self.runner.test(**defaults)
Run(k, o) ==
    /\ Len(session.runs) < MaxRuns
    /\ session' =
          IF session.hasRun
          THEN [session EXCEPT !.runs = Append(@, "RuntimeError")]
          ELSE IF k = "managed"
          THEN [session EXCEPT !.runs = Append(@, "ValueError")]
          ELSE IF k = "badlog"
          THEN [session EXCEPT !.hasRun = TRUE,
                               !.runs = Append(@, "TypeError")]
          ELSE [hasRun |-> TRUE, tests |-> session.tests + 1,
                runs |-> Append(session.runs, o)]
    /\ UNCHANGED <<core, probe, node, marking>>

NextSession == \E k \in KwargKinds : \E o \in RunnerOutcomes : Run(k, o)

SpecSession == Init /\ [][NextSession]_vars


\* ------------------------------------------------------- _sanitise_name --

\* a string is a sequence of characters; the characters a node ID is made of
Alphabet == {"a", "/", ":", "[", "]", "_", "."}

NodeIds == UNION {[1..n -> Alphabet] : n \in 0..MaxLen}

\* str.split("::"): the pieces between the non-overlapping occurrences of
\* "::", found from the left; cur is the piece being read, i the position
RECURSIVE SplitFrom(_, _, _)
SplitFrom(s, cur, i) ==
    IF i > Len(s) THEN <<cur>>
    ELSE IF i < Len(s) /\ s[i] = ":" /\ s[i + 1] = ":"
    THEN <<cur>> \o SplitFrom(s, <<>>, i + 2)
    ELSE SplitFrom(s, Append(cur, s[i]), i + 1)

Split(s) == SplitFrom(s, <<>>, 1)

\* the components of a path: the pieces between "/", the empty ones and
\* the "." ones dropped
RECURSIVE PartsFrom(_, _, _)
PartsFrom(s, cur, i) ==
    LET keep == IF cur = <<>> \/ cur = <<".">> THEN <<>> ELSE <<cur>>
    IN  IF i > Len(s) THEN keep
        ELSE IF s[i] = "/" THEN keep \o PartsFrom(s, <<>>, i + 1)
        ELSE PartsFrom(s, Append(cur, s[i]), i + 1)

\* Path(s).name: the last component, empty when there is none
Name(s) ==
    LET parts == PartsFrom(s, <<>>, 1)
    IN  IF parts = <<>> THEN <<>> ELSE parts[Len(parts)]

\* Path(s).stem: the name up to its last ".", unless that "." is the
\* first or the last character of the name or there is none
Stem(s) ==
    LET name == Name(s)
        dots == {j \in 1..Len(name) : name[j] = "."}
        last == IF dots = {} THEN 0
                ELSE CHOOSE j \in dots : \A k \in dots : k <= j
    IN  IF 1 < last /\ last < Len(name) THEN SubSeq(name, 1, last - 1)
        ELSE name

\* "_".join(parts)
RECURSIVE Join(_)
Join(parts) ==
    IF parts = <<>> THEN <<>>
    ELSE IF Len(parts) = 1 THEN parts[1]
    ELSE parts[1] \o <<"_">> \o Join(Tail(parts))

\* _sanitise_name(node_id): f"{module}__{test_name}"
SanitiseName(node_id) ==
    LET parts == Split(node_id)
        file_path == parts[1]
        test_parts == Tail(parts)
        module == Stem(file_path)
        test_name == Join(test_parts)
    IN  module \o <<"_", "_">> \o test_name

InitName ==
    /\ InitLock /\ probe = NoProbe /\ session = NoSession
    /\ marking = NoMarking
    /\ node \in [id : NodeIds, out : {<<>>}, at : {"call"}]

\* safe_name = _sanitise_name(node_id)
Sanitise ==
    /\ node.at = "call"
    /\ node' = [node EXCEPT !.out = SanitiseName(node.id), !.at = "ret"]
    /\ UNCHANGED <<core, probe, session, marking>>

NextName == Sanitise

SpecName == InitName /\ [][NextName]_vars

\* ------------------------------------- _create_marker in ensure_done -----

\* what self.fn() does in this call: it returns, or raises an error whose
\* str() is "e1" or is empty
FnOutcomes == {[kind |-> "ok", msg |-> ""], [kind |-> "OpError", msg |-> "e1"],
               [kind |-> "OpError", msg |-> ""]}

\* a system call that completed: os.open, os.write, os.fsync or os.close
\* on a marker file or on the markers' directory, or the release of the
\* lock
Done(op, on) == [op |-> op, on |-> on]

Logged(op, on) == [marking EXCEPT !.log = Append(@, Done(op, on))]

\* an exception leaves _create_marker: out of the try for the done marker
\* it is caught by `except Exception as e`, which creates the failed
\* marker with str(e); out of the except clause it leaves the with-block
RaiseFrom(m) ==
    IF m.path = "done"
    THEN [m EXCEPT !.at = "open", !.path = "failed", !.content = "e2",
                   !.exc = "none", !.err = "OSError"]
    ELSE [m EXCEPT !.at = "release", !.exc = "none", !.err = "OSError"]

\* the caller holds the lock and has found neither marker
InitMarking ==
    /\ InitLock /\ probe = NoProbe /\ session = NoSession /\ node = NoNode
    /\ marking = [NoMarking EXCEPT !.at = "fn"]

\* try: self.fn() ... except Exception as e: ...
CallFn(o) ==
    /\ marking.at = "fn"
    /\ marking' = IF o.kind = "ok"
                  THEN [marking EXCEPT !.at = "open", !.path = "done"]
                  ELSE [marking EXCEPT !.at = "open", !.path = "failed",
                                       !.content = o.msg, !.err = o.kind]
    /\ UNCHANGED <<core, probe, session, node>>

\* _create_marker: fd = os.open(str(path), O_WRONLY | O_CREAT | O_TRUNC)
CreateOpen(ok) ==
    /\ marking.at = "open"
    /\ marking' =
          IF ok
          THEN [Logged("open", marking.path) EXCEPT
                   !.at = IF marking.content # "" THEN "write" ELSE "fsync"]
          ELSE RaiseFrom(marking)
    /\ UNCHANGED <<core, probe, session, node>>

\* _create_marker: os.write(fd, content.encode())
CreateWrite(ok) ==
    /\ marking.at = "write"
    /\ marking' =
          IF ok
          THEN [Logged("write", marking.path) EXCEPT !.at = "fsync"]
          ELSE [marking EXCEPT !.at = "close", !.exc = "OSError"]
    /\ UNCHANGED <<core, probe, session, node>>

\* a _create_marker that closes the file without flushing it
CreateFsyncSkipped(ok) ==
    /\ marking.at = "fsync"
    /\ marking' = [marking EXCEPT !.at = "close"]
    /\ UNCHANGED <<core, probe, session, node>>

\* _create_marker: os.fsync(fd)
CreateFsync(ok) ==
    /\ marking.at = "fsync"
    /\ marking' =
          IF ok
          THEN [Logged("fsync", marking.path) EXCEPT !.at = "close"]
          ELSE [marking EXCEPT !.at = "close", !.exc = "OSError"]
    /\ UNCHANGED <<core, probe, session, node>>

\* _create_marker: finally: os.close(fd)
CreateClose ==
    /\ marking.at = "close"
    /\ marking' =
          IF marking.exc = "none"
          THEN [Logged("close", marking.path) EXCEPT !.at = "dopen"]
          ELSE RaiseFrom(Logged("close", marking.path))
    /\ UNCHANGED <<core, probe, session, node>>

\* _fsync_directory: fd = os.open(str(dir_path), os.O_RDONLY)
DirOpen(ok) ==
    /\ marking.at = "dopen"
    /\ marking' =
          IF ok
          THEN [Logged("open", "dir") EXCEPT !.at = "dfsync"]
          ELSE RaiseFrom(marking)
    /\ UNCHANGED <<core, probe, session, node>>

\* _fsync_directory: os.fsync(fd)
DirFsync(ok) ==
    /\ marking.at = "dfsync"
    /\ marking' =
          IF ok
          THEN [Logged("fsync", "dir") EXCEPT !.at = "dclose"]
          ELSE [marking EXCEPT !.at = "dclose", !.exc = "OSError"]
    /\ UNCHANGED <<core, probe, session, node>>

\* _fsync_directory: finally: os.close(fd); _create_marker returns, and
\* the with-block is left: by falling off its end after the done marker,
\* by the bare raise after the failed marker
DirClose ==
    /\ marking.at = "dclose"
    /\ marking' =
          IF marking.exc = "none"
          THEN [Logged("close", "dir") EXCEPT !.at = "release"]
          ELSE RaiseFrom(Logged("close", "dir"))
    /\ UNCHANGED <<core, probe, session, node>>

\* __exit__ -> release, then ensure_done returns or the exception goes on
LeaveWith ==
    /\ marking.at = "release"
    /\ marking' = [Logged("release", "lock") EXCEPT
                      !.at = "ret",
                      !.result = IF marking.err = "none" THEN "ok"
                                 ELSE marking.err]
    /\ UNCHANGED <<core, probe, session, node>>

NextMarking ==
    \/ \E o \in FnOutcomes : CallFn(o)
    \/ \E ok \in BOOLEAN : CreateOpen(ok)
    \/ \E ok \in BOOLEAN : CreateWrite(ok)
    \/ \E ok \in BOOLEAN : CreateFsync(ok)
    \/ CreateClose
    \/ \E ok \in BOOLEAN : DirOpen(ok)
    \/ \E ok \in BOOLEAN : DirFsync(ok)
    \/ DirClose
    \/ LeaveWith

SpecMarking == InitMarking /\ [][NextMarking]_vars

\* ----------------------------------------------------------- properties --

\* p is between the return of its acquire and the start of its release: it
\* runs the body of ensure_done's with-block
HeldPcs == {"chk_done", "chk_fail", "read_fail", "invoke", "mk_open",
            "mk_write", "mk_sync", "rel_unlink"}
Holding(p) == pc[p] \in HeldPcs
Holders == {p \in Procs : Holding(p)}

\* C1: mutual exclusion -- in every reachable state at most one caller is
\* between the return of its acquire and the start of its release.
C1_MutualExclusion == Cardinality(Holders) <= 1

\* the callers whose call invoked the operation
Invokers == {p \in Procs : outcome[p] # NoError}

\* the calls that ended with a verdict on the operation: a normal return,
\* the operation's own error, or the error reporting a recorded failure
Finished == {p \in Procs : /\ pc[p] = "ret"
                           /\ result[p].kind \in {"ok", "OpError", "RuntimeError"}}

\* C2: exactly once -- while clean has not been called and every caller
\* that invoked the operation is alive (the executor finishes), the
\* operation has been invoked at most once, it has been invoked if a call
\* ended with a verdict, and the calls that ended with a verdict either all
\* returned normally or all raised an error with the same description.
\* Calls that gave up waiting for the lock are left out of the count.
C2_ExactlyOnce ==
    (~cleaned /\ \A p \in Invokers : Alive(p)) =>
        /\ Cardinality(Invokers) <= 1
        /\ Finished # {} => Invokers # {}
        /\ \A p, q \in Finished :
              /\ result[p] = Ok <=> result[q] = Ok
              /\ result[p].msg = result[q].msg

\* C3 as stated: a call that began when the done marker existed has, once
\* it ended, returned normally without invoking the operation.
C3_ReturnsNormally ==
    \A p \in Procs :
        (late[p] = "done" /\ pc[p] = "ret") =>
            result[p] = Ok /\ outcome[p] = NoError

\* C3: idempotence after success -- a call that began when the done marker
\* existed never invokes the operation; it ends by returning normally or
\* with an error of its lock acquisition (NFSLockTimeout, or the OSError of
\* the Holder Record write).
C3_Idempotent ==
    \A p \in Procs :
        late[p] = "done" =>
            /\ outcome[p] = NoError
            /\ pc[p] = "ret" => result[p] \in {Ok, LockTimeout, FileError}

C3_Witness ==
    \E p \in Procs : late[p] = "done" /\ pc[p] = "ret" /\ result[p] = Ok

\* C4: first failure is recorded -- a call whose invocation of the
\* operation raised an error has, once it ended, written the failed marker
\* with that error's description as content, written no done marker, and
\* raised that same error.
C4_FirstFailure ==
    \A p \in Procs :
        (outcome[p].kind = "OpError" /\ pc[p] = "ret") =>
            /\ wrote[p] = [marker |-> "failed", content |-> outcome[p].msg]
            /\ result[p] = outcome[p]

C4_Witness ==
    \E p \in Procs :
        /\ pc[p] = "ret" /\ outcome[p].kind = "OpError"
        /\ result[p] = outcome[p]
        /\ failed = outcome[p].msg /\ ~done

\* the descriptions of the failures the operation has had
Recorded == {outcome[q].msg : q \in {r \in Procs : outcome[r].kind = "OpError"}}

C6_ScopedAcquisition ==
    [][\A p \in Procs :
         (pc[p] = "rel_rmdir" /\ pc'[p] = "ret") =>
             /\ lockDir' = NoProc
             /\ result'[p] = IF err[p] = NoError THEN Ok ELSE err[p]]_vars

\* C7: release on every path -- a call that returned from acquire and
\* ended by any of the four paths (done marker found: normal return
\* without invocation; failed marker found: the prior-failure error;
\* operation succeeded: normal return; operation raised: its error) has
\* run its release, and is not in the with-block any more.
C7_ReleasedOnEveryPath ==
    \A p \in Procs :
        (pc[p] = "ret" /\ result[p].kind \in {"ok", "RuntimeError", "OpError"}) =>
            /\ {"mkdir", "record", "release"} \subseteq lockOps[p]
            /\ ~Holding(p)

C7_Witness ==
    \E p \in Procs :
        /\ pc[p] = "ret" /\ result[p].kind = "OpError"
        /\ "release" \in lockOps[p]

\* where a call is while it is inside acquire
AcquirePcs == {"mkdir", "read", "sleep", "brk_unlink", "brk_rmdir", "wh_open",
               "wh_write"}

\* C8: blocking acquisition -- a caller whose call began while a live
\* caller with a Holder Record that never went stale had the lock
\* directory is still inside acquire for as long as that holder has not
\* begun its release.
C8_BlocksWhileHeld ==
    \A p \in Procs : blocker[p] # NoProc => pc[p] \in AcquirePcs

\* C9: acquisition timeout -- acquire raises NFSLockTimeout only when its
\* timeout is not negative and has elapsed; a poll that finds the lock
\* held by a holder it does not break goes on to sleep and retry only while
\* the timeout has not elapsed, and raises NFSLockTimeout otherwise.
C9_Timeout ==
    [][\A p \in Procs :
         /\ (result'[p] = LockTimeout /\ pc[p] # "ret") => timeLeft[p] = 0
         /\ (pc[p] = "read" /\ pc'[p] = "sleep") => timeLeft[p] # 0
         /\ (pc[p] = "brk_rmdir" /\ pc'[p] = "sleep") => timeLeft[p] # 0
         /\ (pc[p] \in {"read", "brk_rmdir"} /\ pc'[p] = "ret")
               => result'[p] = LockTimeout]_vars

C9_Witness ==
    \E p \in Procs :
        /\ pc[p] = "ret" /\ result[p] = LockTimeout
        /\ \E q \in Procs : HasLock(q) /\ holder.st = "rec" /\ holder.by = q
                               /\ holder.age > 0

\* C10 as stated: a call that ended in NFSLockTimeout has neither created
\* nor deleted a lock directory or Holder Record.
C10_LeavesLockAsItWas ==
    \A p \in Procs :
        (pc[p] = "ret" /\ result[p] = LockTimeout) => lockOps[p] = {}

\* C10: a timed-out acquisition creates nothing -- a call that ended in
\* NFSLockTimeout has created no lock directory and opened no Holder
\* Record for writing; all it may have done to the lock are the deletions
\* of its stale-break attempts.
C10_CreatesNothing ==
    \A p \in Procs :
        (pc[p] = "ret" /\ result[p] = LockTimeout) =>
            lockOps[p] \subseteq {"unlink", "rmdir"}

C10_Witness ==
    \E p \in Procs :
        /\ pc[p] = "ret" /\ result[p] = LockTimeout
        /\ lockOps[p] = {"unlink", "rmdir"}

\* C11: same-host dead holder -- a contender whose create failed and that
\* reads a Holder Record naming its own host and a process that does not
\* exist goes on to break the lock, whatever the record's age and whatever
\* is left of its own timeout; when its removal of the directory works it
\* retries the create at once, without sleeping or testing the deadline.
C11_DeadHolderBroken ==
    [][\A p \in Procs :
         /\ (/\ pc[p] = "read" /\ pc'[p] \notin {"read", "dead"}
             /\ holder.st = "rec" /\ HostOf(holder.by) = HostOf(p)
             /\ ~Alive(holder.by))
               => pc'[p] = "brk_unlink"
         /\ (pc[p] = "brk_unlink" /\ pc'[p] \notin {"brk_unlink", "dead"})
               => holder' = NoHolder /\ pc'[p] = "brk_rmdir"
         /\ (pc[p] = "brk_rmdir" /\ pc'[p] \notin {"brk_rmdir", "dead"} /\ RmdirOk)
               => /\ lockDir' = NoProc /\ pc'[p] = "mkdir"
                  /\ timeLeft'[p] = timeLeft[p]]_vars

C11_Witness ==
    \E p \in Procs :
        /\ pc[p] = "brk_unlink" /\ timeLeft[p] = 0
        /\ holder.st = "rec" /\ holder.age = 0
        /\ HostOf(holder.by) = HostOf(p) /\ ~Alive(holder.by)

\* C12: other-host holder -- a contender that reads a Holder Record naming
\* another host goes on to break the lock exactly when the record's age is
\* greater than stale_timeout, whether or not the recorded process exists;
\* and no contender deletes a Holder Record that names another host while
\* that record's age is not greater than stale_timeout.
C12_OtherHostByAge ==
    [][\A p \in Procs :
         /\ (/\ pc[p] = "read" /\ pc'[p] \notin {"read", "dead"}
             /\ holder.st = "rec" /\ HostOf(holder.by) # HostOf(p))
               => (pc'[p] = "brk_unlink" <=> holder.age > StaleTimeout)
         /\ (/\ pc[p] = "brk_unlink" /\ pc'[p] = "brk_rmdir"
             /\ holder.st = "rec" /\ HostOf(holder.by) # HostOf(p))
               => holder.age > StaleTimeout]_vars

\* C13: same-host live holder -- a contender that reads a Holder Record
\* naming its own host and a process that exists does not go on to break
\* the lock, whether its probe of the process succeeds or is refused and
\* whatever the record's age; and no contender deletes a Holder Record
\* that names its own host and a process that exists.
C13_LiveHolderKept ==
    [][\A p \in Procs :
         /\ (/\ pc[p] = "read" /\ holder.st = "rec"
             /\ HostOf(holder.by) = HostOf(p) /\ Alive(holder.by))
               => pc'[p] # "brk_unlink"
         /\ (/\ pc[p] = "brk_unlink" /\ pc'[p] = "brk_rmdir"
             /\ holder.st = "rec" /\ HostOf(holder.by) = HostOf(p))
               => ~Alive(holder.by)]_vars

\* C14: unreadable record -- while the lock directory exists and its
\* Holder Record is missing, empty or unparsable, a step of a contender
\* that is at its create, at its read of the record or at the unlink of a
\* stale-break leaves the directory and the record as they are, and ends
\* the call, if at all, with NFSLockTimeout.  (The rmdir of a stale-break
\* is left out: the record is missing then because the break deleted it.)
C14_UnreadableNotBroken ==
    [][\A p \in Procs :
         (/\ pc[p] \in {"mkdir", "read", "sleep", "brk_unlink"}
          /\ pc'[p] \notin {pc[p], "dead"}
          /\ lockDir # NoProc /\ holder.st # "rec")
            => /\ lockDir' = lockDir /\ holder' = holder
               /\ pc'[p] \notin {"wh_open", "brk_unlink"}
               /\ pc'[p] = "ret" => result'[p] = LockTimeout]_vars

\* the lock directory is there and the process that made it is dead
Abandoned == lockDir # NoProc /\ ~Alive(lockDir)

\* C15: recovery from abandoned locks -- whenever the lock directory is
\* one left behind by a process that died after its create (before or
\* after it wrote its Holder Record) and a contender without a deadline is
\* polling for the lock, that contender's create eventually succeeds.
C15_Recovery ==
    \A p \in Procs :
        (Abandoned /\ pc[p] \in {"mkdir", "read", "sleep"}
                   /\ timeLeft[p] = NoDeadline)
            ~> ("mkdir" \in lockOps[p])

\* C16: marker exclusivity -- in every reachable state at most one of the
\* done marker and the failed marker exists, also after a system call of a
\* marker write has failed.
C16_MarkerExclusivity == ~(done /\ failed # Absent)

\* C17 as stated: once clean has removed the markers neither marker
\* exists until a call begins, and when the first call that begins after
\* it has ended, the operation has been invoked again.
C17_InvokesAgain ==
    /\ sinceClean.st = "fresh" => ~done /\ failed = Absent
    /\ \A p \in Procs :
          (sinceClean.next = p /\ pc[p] = "ret") => sinceClean.st = "invoked"

\* C17: reset -- once clean has removed the markers neither marker exists
\* until a call begins, and when the first call that begins after it has
\* ended, either the operation has been invoked again or that call ended
\* with an error of its lock acquisition (NFSLockTimeout, or the OSError of
\* the Holder Record write).
C17_Reset ==
    /\ sinceClean.st = "fresh" => ~done /\ failed = Absent
    /\ \A p \in Procs :
          (sinceClean.next = p /\ pc[p] = "ret") =>
              \/ sinceClean.st = "invoked"
              \/ result[p] \in {LockTimeout, FileError}

C17_Witness ==
    \E p \in Procs :
        /\ sinceClean.next = p /\ pc[p] = "ret"
        /\ outcome[p] # NoError /\ late[p] = "none"
        /\ \E q \in Procs \ {p} : pc[q] = "ret" /\ outcome[q].kind = "OpError"

C19_ErrorKinds ==
    \A p \in Procs :
        pc[p] = "ret" =>
            /\ result[p].kind = "NFSLockTimeout" =>
                  outcome[p] = NoError /\ "mkdir" \notin lockOps[p]
            /\ result[p].kind \in {"OpError", "RuntimeError"} =>
                  "release" \in lockOps[p]

\* C20: release never fails -- a release that has begun runs its two
\* removals and returns, whether or not the Holder Record and the
\* directory are still there and whether or not the removals work; the
\* call then ends with the exception its with-block raised, or normally if
\* it raised none.
C20_ReleaseNeverFails ==
    [][\A p \in Procs :
         /\ (pc[p] = "rel_unlink" /\ pc'[p] \notin {"rel_unlink", "dead"})
               => pc'[p] = "rel_rmdir" /\ err'[p] = err[p]
         /\ (pc[p] = "rel_rmdir" /\ pc'[p] \notin {"rel_rmdir", "dead"})
               => /\ pc'[p] = "ret"
                  /\ result'[p] = IF err[p] = NoError THEN Ok ELSE err[p]]_vars

C20_Witness ==
    \E p \in Procs :
        /\ pc[p] = "ret" /\ "release" \in lockOps[p] /\ result[p] = Ok
        /\ lockDir = p /\ holder.st = "rec"

\* the Holder Record h is stale for contender p under the staleness rules
StaleFor(p, h) ==
    /\ h.st = "rec"
    /\ IF HostOf(h.by) = HostOf(p) THEN ~Alive(h.by) ELSE h.age > StaleTimeout

\* C21: only the holder mutates -- a caller opens holder.info for writing,
\* deletes a Holder Record in its release and creates or writes a marker
\* only while the lock directory is the one its own create made; the only
\* other deletion of a Holder Record is by a contender for which that
\* record is stale.
C21_OnlyHolderMutates ==
    [][\A p \in Procs :
         /\ (pc[p] = "wh_open" /\ pc'[p] = "wh_write") => lockDir = p
         /\ (pc[p] = "rel_unlink" /\ pc'[p] = "rel_rmdir" /\ holder.st # "none")
               => lockDir = p
         /\ (/\ pc[p] \in {"mk_open", "mk_write"}
             /\ pc'[p] \in {"mk_write", "mk_sync"})
               => lockDir = p
         /\ (pc[p] = "brk_unlink" /\ pc'[p] = "brk_rmdir" /\ holder.st # "none")
               => StaleFor(p, holder)]_vars

\* C22: Holder Record invariant -- while a caller is between the return
\* of its acquire and the start of its release, the lock directory exists
\* and holder.info holds that caller's record.
C22_HolderRecord ==
    \A p \in Procs :
        Holding(p) =>
            /\ lockDir # NoProc
            /\ holder.st = "rec" /\ holder.by = p

\* C23: marker existence check -- a call of _nfs_file_exists that has
\* ended returned True or False, and True exactly when both the parent
\* directory and the file could be opened read-only; no step of the call
\* changes the path, the directory or the file.
C23_ExistenceCheck ==
    /\ [](probe.at = "ret" =>
            /\ probe.ret \in {"True", "False"}
            /\ probe.ret = "True" <=> (probe.parent = "ok" /\ probe.file = "ok"))
    /\ [][/\ probe'.path = probe.path
          /\ probe'.parent = probe.parent
          /\ probe'.file = probe.file]_vars

C23_Witness ==
    /\ probe.at = "ret" /\ probe.ret = "False"
    /\ probe.parent = "ok" /\ probe.file = "EACCES"

\* C24: run is single-use -- over the run() calls made on one TestSession
\* so far, runner.test has been called at most once, and every call after
\* the first one that passed the _MANAGED_KEYS validation raised
\* RuntimeError, whether the runner then returned or raised.
C24_SingleUse ==
    /\ session.tests <= 1
    /\ session.tests =
          Cardinality({i \in DOMAIN session.runs :
                          session.runs[i] \in RunnerOutcomes})
    /\ \A i, j \in DOMAIN session.runs :
          (i < j /\ session.runs[i] # "ValueError")
              => session.runs[j] = "RuntimeError"

C24_Witness ==
    \E i, j \in DOMAIN session.runs :
        /\ i < j /\ session.tests = 1
        /\ session.runs[i] = "RunnerError" /\ session.runs[j] = "RuntimeError"

\* a string with no path separator, no "::", no bracket, no run of
\* underscores and no underscore at either end
Clean25(s) ==
    /\ \A i \in 1..Len(s) : s[i] \notin {"/", "[", "]"}
    /\ \A i \in 1..(Len(s) - 1) :
          ~(s[i] = ":" /\ s[i + 1] = ":") /\ ~(s[i] = "_" /\ s[i + 1] = "_")
    /\ s # <<>> => (s[1] # "_" /\ s[Len(s)] # "_")

\* C25: the name _sanitise_name returns holds no path separator, no "::"
\* and no bracket, no run of underscores, and no underscore at either end,
\* and a node ID that has none of these to begin with (a bare name such as
\* test_foo) is returned unchanged.
C25_SanitisedName ==
    node.at = "ret" =>
        /\ Clean25(node.out)
        /\ Clean25(node.id) => node.out = node.id

\* C26: the atomic create is the only acquisition event -- a caller goes
\* on to write its Holder Record only from a create of its own that found
\* no lock directory and made one, and returns from acquire only from that
\* write; a stale-break step never takes the breaker into the lock: a
\* removal that works leaves no directory behind and sends the breaker
\* back to its create.
C26_CreateOnlyAcquires ==
    [][\A p \in Procs :
         /\ (pc'[p] = "wh_open" /\ pc[p] # "wh_open")
               => pc[p] = "mkdir" /\ lockDir = NoProc /\ lockDir' = p
         /\ (pc'[p] = "chk_done" /\ pc[p] # "chk_done") => pc[p] = "wh_write"
         /\ (pc[p] \in {"read", "brk_unlink", "brk_rmdir"} /\ pc'[p] # pc[p])
               => pc'[p] \in {"mkdir", "read", "sleep", "brk_unlink", "brk_rmdir",
                               "ret", "dead"}
         /\ (pc[p] = "brk_rmdir" /\ pc'[p] = "mkdir") => lockDir' = NoProc
         /\ (pc[p] \in {"read", "brk_unlink", "brk_rmdir"} /\ pc'[p] = "ret")
               => result'[p] = LockTimeout]_vars

\* a breaker whose removal worked is still contending while another caller,
\* whose create came first, has the lock
C26_Witness ==
    \E p, q \in Procs :
        /\ p # q /\ "rmdir" \in lockOps[p] /\ pc[p] \in {"read", "sleep"}
        /\ lockDir = q /\ Holding(q) /\ "mkdir" \in lockOps[q]

\* C27: retry order in acquire -- a stale-break whose rmdir works is
\* followed at once by the next create, with the deadline neither tested
\* nor changed; a poll that ends without a break (record missing,
\* unreadable or not stale) and a break whose rmdir fails change nothing
\* at the lock path and are followed by the deadline test, which raises
\* NFSLockTimeout once the deadline is reached and otherwise goes to the
\* sleep; the next create comes after the sleep.
C27_RetryOrder ==
    [][\A p \in Procs :
         /\ (pc[p] = "brk_rmdir" /\ pc'[p] \notin {"brk_rmdir", "dead"} /\ RmdirOk)
               => pc'[p] = "mkdir" /\ timeLeft'[p] = timeLeft[p]
         /\ (\/ pc[p] = "brk_rmdir" /\ pc'[p] \notin {"brk_rmdir", "dead"} /\ ~RmdirOk
             \/ pc[p] = "read" /\ pc'[p] \notin {"read", "dead", "brk_unlink"})
               => /\ lockDir' = lockDir /\ holder' = holder
                  /\ IF TimedOut(p)
                     THEN pc'[p] = "ret" /\ result'[p] = LockTimeout
                     ELSE pc'[p] = "sleep" /\ timeLeft'[p] = timeLeft[p]
         /\ (pc[p] = "sleep" /\ pc'[p] \notin {"sleep", "dead"}) => pc'[p] = "mkdir"
         /\ (pc'[p] = "mkdir" /\ pc[p] # "mkdir")
               => pc[p] \in {"idle", "sleep", "brk_rmdir"}]_vars

\* a contender asleep after a break that deleted the record and then
\* failed to remove the directory
C27_Witness ==
    \E p \in Procs :
        /\ pc[p] = "sleep"
        /\ "unlink" \in lockOps[p] /\ "rmdir" \notin lockOps[p]

\* the lock directory at the path is the one a live caller made and has
\* not yet begun to remove
LiveInstance == lockDir # NoProc /\ Alive(lockDir) /\ HasLock(lockDir)

\* C28: a stale-break removes only the lock instance it judged stale --
\* with no live holder overstaying stale_timeout, the unlink of a
\* stale-break deletes no holder.info that is in the directory of a live
\* caller that made it and has not begun its release, and the rmdir of a
\* stale-break removes no such directory.
C28_BreaksOnlyJudged ==
    [][\A p \in Procs :
         /\ (pc[p] = "brk_unlink" /\ pc'[p] = "brk_rmdir" /\ holder.st # "none")
               => ~LiveInstance
         /\ (pc[p] = "brk_rmdir" /\ pc'[p] = "mkdir" /\ lockDir' # lockDir)
               => ~LiveInstance]_vars

\* C29: release removes only the releasing caller's own lock -- the unlink
\* of a release deletes a holder.info only from the directory the
\* releasing caller made, and the rmdir of a release removes only that
\* directory.
C29_ReleasesOwnLock ==
    [][\A p \in Procs :
         /\ (pc[p] = "rel_unlink" /\ pc'[p] = "rel_rmdir" /\ holder' # holder)
               => lockDir = p
         /\ (pc[p] = "rel_rmdir" /\ pc'[p] = "ret" /\ lockDir' # lockDir)
               => lockDir = p]_vars

\* where a call is from its done-marker check having found nothing until
\* its marker is written
DecidingPcs == {"chk_fail", "invoke", "mk_open", "mk_write"}

\* where a call is when its next step reads or writes a marker
MarkerPcs == {"chk_done", "chk_fail", "read_fail", "mk_open", "mk_write"}

\* C30: check-then-act under the lock -- with no live holder overstaying
\* stale_timeout, a caller goes on to invoke the operation only from its
\* failed-marker check, having found the done marker and then the failed
\* marker absent, and the lock directory is its own at both checks and at
\* the invocation; while a caller is between its done-marker check and
\* the end of its marker write, no other caller's step reads or writes a
\* marker.
C30_CheckThenAct ==
    [][\A p \in Procs :
         /\ (pc[p] = "chk_done" /\ pc'[p] = "chk_fail") => lockDir = p /\ ~done
         /\ (pc[p] = "chk_fail" /\ pc'[p] = "invoke")
               => lockDir = p /\ failed = Absent
         /\ (pc[p] = "invoke" /\ pc'[p] = "mk_open") => lockDir = p
         /\ (pc'[p] = "invoke" /\ pc[p] # "invoke") => pc[p] = "chk_fail"
         /\ pc[p] \in DecidingPcs
               => \A q \in Procs \ {p} :
                     pc[q] \in MarkerPcs => pc'[q] \in {pc[q], "dead"}]_vars

\* the positions of the log where op completed on the file or directory on
Where(op, on) == {i \in DOMAIN marking.log : marking.log[i] = Done(op, on)}

\* position k belongs to the _create_marker call whose os.open is at j
SameCall(j, k) ==
    /\ j < k
    /\ \A i \in DOMAIN marking.log :
          (j < i /\ i < k) => ~(marking.log[i].op = "open"
                                  /\ marking.log[i].on \in MarkerPaths)

\* C31: marker write order -- every system call _create_marker makes is
\* an open, write, fsync or close of the marker file or of its directory
\* (never a whole-system sync); a flush of the directory comes after the
\* flush of the marker file of the same call, and that flush after the
\* write of the content when there is content; every flush comes before
\* the release of the lock; and a call that returns normally has flushed
\* the done marker and then the directory, and created no failed marker.
C31_WriteOrder ==
    /\ \A i \in DOMAIN marking.log :
          marking.log[i].op \in {"open", "write", "fsync", "close", "release"}
    /\ \A d \in Where("fsync", "dir") :
          \E m \in MarkerPaths : \E j \in Where("open", m) :
              /\ SameCall(j, d)
              /\ \E k \in Where("fsync", m) : j < k /\ k < d
    /\ \A m \in MarkerPaths : \A k \in Where("fsync", m) :
          \E j \in Where("open", m) :
              /\ SameCall(j, k)
              /\ (m = "failed" /\ marking.content # "")
                    => \E w \in Where("write", m) : j < w /\ w < k
    /\ \A i, r \in DOMAIN marking.log :
          (marking.log[i].op = "fsync" /\ marking.log[r].op = "release")
              => i < r
    /\ (marking.at = "ret" /\ marking.result = "ok")
          => /\ \E k \in Where("fsync", "done") :
                   \E d \in Where("fsync", "dir") : k < d
             /\ Where("open", "failed") = {}

\* the call has returned normally, having created and flushed the done
\* marker and its directory and then released the lock
C31_Witness ==
    /\ marking.at = "ret" /\ marking.result = "ok"
    /\ marking.log = <<Done("open", "done"), Done("fsync", "done"),
                       Done("close", "done"), Done("open", "dir"),
                       Done("fsync", "dir"), Done("close", "dir"),
                       Done("release", "lock")>>

\* C32: a call that ends in the lock's timeout has touched no marker -- a
\* call whose acquire raised NFSLockTimeout has not invoked the operation,
\* has written no marker and never got past acquire; and no step a caller
\* takes inside acquire creates, changes or removes a marker.
C32_TimeoutTouchesNoMarker ==
    /\ [](\A p \in Procs :
            (pc[p] = "ret" /\ result[p] = LockTimeout)
                => /\ outcome[p] = NoError /\ wrote[p] = NoMarker
                   /\ "mkdir" \notin lockOps[p])
    /\ [][\A p \in Procs :
            (pc[p] \in AcquirePcs /\ pc'[p] # pc[p])
                => done' = done /\ failed' = failed]_vars

\* a call has timed out while a marker written by another call exists
C32_Witness ==
    \E p \in Procs :
        /\ pc[p] = "ret" /\ result[p] = LockTimeout
        /\ late[p] = "none" /\ (done \/ failed # Absent)

\* C33: a failed marker records only failures of the operation -- a failed
\* marker exists only when some invocation of the operation raised, and a
\* call whose invocation returned normally has created no failed marker,
\* also when a system call of its done-marker write failed.
C33_FailedOnlyFromOperation ==
    /\ failed # Absent => \E p \in Procs : outcome[p].kind \notin {"none", "ok"}
    /\ \A p \in Procs : outcome[p].kind = "ok" => wrote[p].marker # "failed"

\* C34: no failed acquire leaves the lock held -- when a call has ended
\* with an error raised by acquire (NFSLockTimeout, or the OSError of the
\* Holder Record write), so that its with-block was never entered and its
\* release never ran, the lock directory at the path is not one that this
\* call created.
C34_FailedAcquireLeavesNoLock ==
    \A p \in Procs :
        (/\ pc[p] = "ret" /\ result[p].kind \in {"NFSLockTimeout", "OSError"}
         /\ "release" \notin lockOps[p])
            => lockDir # p

=============================================================================
